---- MODULE Spec2Model ----
(***************************************************************************)
(* The Planyo availability endpoints of easyrent-code.                     *)
(*                                                                         *)
(*   "usage"        src/unnamed/part_001           get_resource_usage      *)
(*   "availability" src/api/planyo-availability.js get_resource_usage      *)
(*   "search"       src/unnamed/part_000           resource_search         *)
(*   "available"    src/api/planyo-available.js    resource_search + CORS  *)
(*                                                                         *)
(* One request is handled at a time.  An action is one run-to-completion   *)
(* step of the JavaScript event loop: the code between two suspension      *)
(* points, together with every promise continuation it makes runnable.     *)
(*                                                                         *)
(* JavaScript strings are sequences of one-character strings; a Date is    *)
(* its time value in seconds (the code only compares time values, which    *)
(* are all whole seconds here), NaN being the record with nan = TRUE.      *)
(***************************************************************************)
EXTENDS Integers, Sequences, FiniteSets, TLC

\* ------------------------------------------------------------------ bounds

\* The longest id list "1,2,...,n" a fan-out request carries.
MaxIds == 7

\* --------------------------------------------------------------- JS values

\* The JavaScript value undefined (a missing query parameter or field).
Undefined == << "undefined" >>

Digit == {"0", "1", "2", "3", "4", "5", "6", "7", "8", "9"}

WhiteSpace == {" "}

DigitVal(c) ==
  CASE c = "0" -> 0 [] c = "1" -> 1 [] c = "2" -> 2 [] c = "3" -> 3 [] c = "4" -> 4
    [] c = "5" -> 5 [] c = "6" -> 6 [] c = "7" -> 7 [] c = "8" -> 8 [] c = "9" -> 9

DigitChar(n) ==
  CASE n = 0 -> "0" [] n = 1 -> "1" [] n = 2 -> "2" [] n = 3 -> "3" [] n = 4 -> "4"
    [] n = 5 -> "5" [] n = 6 -> "6" [] n = 7 -> "7" [] n = 8 -> "8" [] n = 9 -> "9"

\* A JavaScript number: NaN, or a finite integer.
NaN == [nan |-> TRUE, v |-> 0]

Num(n) == [nan |-> FALSE, v |-> n]

\* a < b on numbers and on Dates: false as soon as one side is NaN.
Less(a, b) == ~a.nan /\ ~b.nan /\ a.v < b.v

Min(a, b) == IF a < b THEN a ELSE b

\* Truthiness of a string-or-undefined value.
Truthy(s) == s # Undefined /\ s # <<>>

AllDigits(s) == Len(s) > 0 /\ \A k \in 1..Len(s) : s[k] \in Digit

RECURSIVE DecimalValue(_)
DecimalValue(s) ==
  IF s = <<>> THEN 0 ELSE 10 * DecimalValue(SubSeq(s, 1, Len(s) - 1)) + DigitVal(s[Len(s)])

\* String.prototype.trim
RECURSIVE TrimLeft(_)
TrimLeft(s) ==
  IF s # <<>> /\ Head(s) \in WhiteSpace THEN TrimLeft(Tail(s)) ELSE s

RECURSIVE TrimRight(_)
TrimRight(s) ==
  IF s # <<>> /\ s[Len(s)] \in WhiteSpace THEN TrimRight(SubSeq(s, 1, Len(s) - 1)) ELSE s

Trim(s) == TrimRight(TrimLeft(s))

\* String.prototype.split(","): the pieces between the commas, empty ones included.
RECURSIVE SplitComma(_, _)
SplitComma(s, cur) ==
  IF s = <<>> THEN << cur >>
  ELSE IF Head(s) = "," THEN << cur >> \o SplitComma(Tail(s), <<>>)
  ELSE SplitComma(Tail(s), Append(cur, Head(s)))

\* Number(string) for decimal integer literals with an optional sign; the empty
\* and the all-blank string give 0, every other text gives NaN.
ToNumber(s) ==
  LET t == Trim(s)
      body == IF t # <<>> /\ Head(t) \in {"+", "-"} THEN Tail(t) ELSE t
  IN  IF t = <<>> THEN Num(0)
      ELSE IF ~AllDigits(body) THEN NaN
      ELSE IF Head(t) = "-" THEN Num(0 - DecimalValue(body))
      ELSE Num(DecimalValue(body))

\* ------------------------------------------------------------ pure helpers

isValidISODate(s) ==
  /\ s # Undefined
  /\ Len(s) = 10
  /\ \A k \in {1, 2, 3, 4, 6, 7, 9, 10} : s[k] \in Digit
  /\ s[5] = "-"
  /\ s[8] = "-"

\* Days from 1970-01-01 to the civil date y-m-d (proleptic Gregorian).
DaysFromCivil(y, m, d) ==
  LET yy == IF m <= 2 THEN y - 1 ELSE y
      era == yy \div 400
      yoe == yy - era * 400
      mp == IF m > 2 THEN m - 3 ELSE m + 9
      doy == (153 * mp + 2) \div 5 + d - 1
      doe == yoe * 365 + yoe \div 4 - yoe \div 100 + doy
  IN  era * 146097 + doe - 719468

\* new Date(`${iso}T00:00:00.000Z`): Invalid Date (NaN) for a month outside
\* 01..12 or a day outside 01..31.
toDateUTC(iso) ==
  LET y == DecimalValue(SubSeq(iso, 1, 4))
      m == DecimalValue(SubSeq(iso, 6, 7))
      d == DecimalValue(SubSeq(iso, 9, 10))
  IN  IF m \notin 1..12 \/ d \notin 1..31 THEN NaN
      ELSE Num(DaysFromCivil(y, m, d) * 86400)

\* Overlap of closed intervals: touching intervals overlap.
rangesOverlapClosed(aStart, aEnd, bStart, bEnd) ==
  /\ Less(aStart, bEnd) \/ (~aStart.nan /\ aStart = bEnd)
  /\ Less(bStart, aEnd) \/ (~bStart.nan /\ bStart = aEnd)

rangesOverlap(aStart, aEnd, bStart, bEnd) == Less(aStart, bEnd) /\ Less(bStart, aEnd)

parseIds(csv) ==
  IF ~Truthy(csv) THEN <<>>
  ELSE LET pieces == SplitComma(csv, <<>>)
           trimmed == [k \in 1..Len(pieces) |-> Trim(pieces[k])]
       IN  SelectSeq(trimmed, LAMBDA s : s # <<>>)

\* String(debug || "").toLowerCase() === "1"
debugModeOf(debug) == (IF Truthy(debug) THEN debug ELSE <<>>) = << "1" >>

\* A JSON value found in a payload field: undefined (the field is missing), a
\* number or a string.
JSUndef == [t |-> "undefined", n |-> 0, s |-> <<>>]

JSNum(x) == [t |-> "number", n |-> x, s |-> <<>>]

JSStr(x) == [t |-> "string", n |-> 0, s |-> x]

JSTruthy(v) == (v.t = "number" /\ v.n # 0) \/ (v.t = "string" /\ v.s # <<>>)

\* typeof n === "number" && n > 1000000000 && n < 99999999999; the upper limit
\* is above every 32-bit integer, so it cannot fail on the values used here.
isUnixSeconds(n) == n.t = "number" /\ n.n > 1000000000

\* new Date(sec * 1000), as a time value in seconds.
unixSecondsToDateUTC(sec) == Num(sec)

\* ------------------------------------------------------- upstream payloads

\* A parsed upstream body.  usage is data.usage (resource id -> its entries);
\* candidates are the five fallback paths data.periods, periods, data.bookings,
\* bookings, result.periods in the order the code probes them; results are the
\* three places data.results, result.results, results of a search answer, each
\* with its entries in key order, and reasons is the reason_not_listed object
\* found (resource id -> text).  Usage entries carry from/to only.  isNull marks
\* the JSON body null, on which every field reads as undefined.
Payload(code, msg, usage, candidates, results, reasons) ==
  [isNull |-> FALSE, response_code |-> code, response_message |-> msg, usage |-> usage,
   candidates |-> candidates, results |-> results, reasons |-> reasons]

NoArray == [isArray |-> FALSE, items |-> <<>>]

ArrayOf(items) == [isArray |-> TRUE, items |-> items]

NoCandidates == << NoArray, NoArray, NoArray, NoArray, NoArray >>

NoUsage == [r \in {} |-> <<>>]

NoObject == [t |-> "undefined", items |-> <<>>]

ObjectOf(items) == [t |-> "object", items |-> items]

NoResults == << NoObject, NoObject, NoObject >>

NoReasons == [r \in {} |-> ""]

EmptyPayload == Payload(JSUndef, "", NoUsage, NoCandidates, NoResults, NoReasons)

NullPayload == [EmptyPayload EXCEPT !.isNull = TRUE]

\* What the upstream answers to one outbound call: the HTTP status, whether the
\* response has a body at all, the length of the body text, whether the text is
\* JSON and, if so, the parsed body.
Answer(status, hasBody, textLen, isJson, body) ==
  [status |-> status, hasBody |-> hasBody, textLen |-> textLen, isJson |-> isJson,
   body |-> body]

\* Response.ok
RespOk(o) == o.status >= 200 /\ o.status <= 299

\* An error message: the fixed text and what the code interpolates into it.
Msg(text, status, rid, excerpt) ==
  [text |-> text, status |-> status, rid |-> rid, excerpt |-> excerpt]

Msg0(text) == Msg(text, 0, <<>>, 0)

\* Array.prototype.find(Array.isArray) over the fallback paths.
RECURSIVE FirstArray(_)
FirstArray(cands) ==
  IF cands = <<>> THEN NoArray
  ELSE IF Head(cands).isArray THEN Head(cands)
  ELSE FirstArray(Tail(cands))

\* The entries of a container that carry Unix-second from/to.
RECURSIVE UnixRanges(_)
UnixRanges(items) ==
  IF items = <<>> THEN <<>>
  ELSE LET item == Head(items)
       IN  (IF isUnixSeconds(item.from) /\ isUnixSeconds(item.to)
            THEN << [start |-> unixSecondsToDateUTC(item.from.n),
                     end |-> unixSecondsToDateUTC(item.to.n)] >>
            ELSE <<>>) \o UnixRanges(Tail(items))

\* The entries of a fallback container: ISO dates first, Unix seconds otherwise.
RECURSIVE FallbackRanges(_)
FallbackRanges(items) ==
  IF items = <<>> THEN <<>>
  ELSE LET item == Head(items)
           fromIso == IF JSTruthy(item.from) /\ item.from.t = "string"
                      THEN item.from.s ELSE Undefined
           toIso == IF JSTruthy(item.to) /\ item.to.t = "string"
                    THEN item.to.s ELSE Undefined
       IN  (IF isValidISODate(fromIso) /\ isValidISODate(toIso)
            THEN << [start |-> toDateUTC(fromIso), end |-> toDateUTC(toIso)] >>
            ELSE IF isUnixSeconds(item.from) /\ isUnixSeconds(item.to)
            THEN << [start |-> unixSecondsToDateUTC(item.from.n),
                     end |-> unixSecondsToDateUTC(item.to.n)] >>
            ELSE <<>>) \o FallbackRanges(Tail(items))

extractBusyRangesForResource(planyoData, resourceId) ==
  IF resourceId \in DOMAIN planyoData.usage
  THEN UnixRanges(planyoData.usage[resourceId])
  ELSE FallbackRanges(FirstArray(planyoData.candidates).items)

\* The outcome of one get_resource_usage call: the parsed body, or the error
\* thrown.  Reading the text of a body that resp.json() has already consumed
\* rejects with the runtime's TypeError.
callPlanyoGetResourceUsage(o, resourceId) ==
  IF ~RespOk(o)
  THEN [threw |-> TRUE, data |-> EmptyPayload,
        message |-> Msg("Planyo HTTP for resource", o.status, resourceId,
                        Min(o.textLen, 300))]
  ELSE IF o.isJson
  THEN [threw |-> FALSE, data |-> o.body, message |-> Msg0("")]
  ELSE IF o.hasBody
  THEN [threw |-> TRUE, data |-> EmptyPayload, message |-> Msg0("Body is unusable")]
  ELSE [threw |-> TRUE, data |-> EmptyPayload,
        message |-> Msg("Planyo response not JSON", 0, <<>>, Min(o.textLen, 200))]

\* planyoData?.response_code && planyoData?.response_code !== 0
hasErrorCode(planyoData) ==
  /\ JSTruthy(planyoData.response_code)
  /\ ~(planyoData.response_code.t = "number" /\ planyoData.response_code.n = 0)

UpstreamError(planyoData) ==
  [response_code |-> planyoData.response_code,
   response_message |-> planyoData.response_message]

\* The loop over busyRanges of the per-resource callback.
isAvailableIn(checkRange, busyRanges) ==
  ~\E k \in 1..Len(busyRanges) :
      rangesOverlap(checkRange.start, checkRange.end, busyRanges[k].start, busyRanges[k].end)

\* An upstream error code leaves the resource available.
errorIsAvailablePermissive == TRUE

\* Whether the per-resource callback reports a resource whose lookup carries an
\* upstream error code as available.
errorIsAvailable == FALSE

\* The per-resource callback handed to mapWithConcurrency, after its call to
\* the upstream has returned planyoData: the entry it returns.
usageResult(id, planyoData, checkRange, debugMode) ==
  IF hasErrorCode(planyoData)
  THEN [id |-> id, isAvailable |-> errorIsAvailable,
        debugInfo |-> [present |-> debugMode, error |-> debugMode, busyCount |-> 0]]
  ELSE LET busyRanges == extractBusyRangesForResource(planyoData, id)
       IN  [id |-> id, isAvailable |-> isAvailableIn(checkRange, busyRanges),
            debugInfo |-> [present |-> debugMode, error |-> FALSE,
                           busyCount |-> IF debugMode THEN Len(busyRanges) ELSE 0]]

\* --------------------------------------------------------- response writer

setHeader(r, name, value) ==
  [r EXCEPT !.headers = {h \in r.headers : h[1] # name} \union {<< name, value >>}]

\* The writer without the cache header.
jsonNoCache(r, status, data) ==
  [setHeader(r, "Content-Type", "application/json; charset=utf-8")
     EXCEPT !.statusCode = status, !.body = data, !.isJson = TRUE, !.writes = r.writes + 1]

json(r, status, data) ==
  [setHeader(setHeader(r, "Content-Type", "application/json; charset=utf-8"),
             "Cache-Control", "s-maxage=60, stale-while-revalidate=300")
     EXCEPT !.statusCode = status, !.body = data, !.isJson = TRUE, !.writes = r.writes + 1]

\* A response nothing has been written to yet.
FreshResponse == [statusCode |-> 200, headers |-> {}, body |-> [none |-> TRUE],
                  isJson |-> FALSE, writes |-> 0]

\* The error body that names every failure as an unknown one.
ErrorBodyUnknown(message) == [error |-> Msg0("Unknown error")]

ErrorBody(message) == [error |-> message]

\* ------------------------------------------------------ mapWithConcurrency

CONCURRENCY == 6

\* One worker per item, whatever the limit.
workerCountUnbounded(limit, n) == n

\* The number of workers mapWithConcurrency starts.
workerCount(limit, n) == Min(limit, n)

\* results.push(value): the slot is the order of completion.
storeResultPush(array, idx, value) ==
  [k \in DOMAIN array \union {Cardinality(DOMAIN array)} |->
    IF k = Cardinality(DOMAIN array) THEN value ELSE array[k]]

\* results[idx] = value
storeResult(array, idx, value) ==
  [k \in DOMAIN array \union {idx} |-> IF k = idx THEN value ELSE array[k]]

EmptyArray == [k \in {} |-> 0]

\* object[key] = value
Put(object, key, value) ==
  [k \in DOMAIN object \union {key} |-> IF k = key THEN value ELSE object[k]]

\* array.length
ArrayLength(array) ==
  IF DOMAIN array = {} THEN 0
  ELSE (CHOOSE k \in DOMAIN array : \A j \in DOMAIN array : j <= k) + 1

\* The elements of an array in index order, holes skipped (what filter visits).
RECURSIVE EntriesFrom(_, _)
EntriesFrom(array, k) ==
  IF k >= ArrayLength(array) THEN <<>>
  ELSE (IF k \in DOMAIN array THEN << array[k] >> ELSE <<>>) \o EntriesFrom(array, k + 1)

Entries(array) == EntriesFrom(array, 0)

\* items[idx] of a zero-based array held as a sequence.
At(items, idx) == items[idx + 1]

\* results.filter(pred).map((r) => r.id)
IdsWhere(array, wanted) ==
  LET kept == SelectSeq(Entries(array), LAMBDA r : r.isAvailable = wanted)
  IN  [k \in 1..Len(kept) |-> kept[k].id]

\* ------------------------------------------------------------------- state

VARIABLES
  variant,             \* which handler serves the request
  apiKey,              \* whether PLANYO_API_KEY is set
  offers,              \* the kinds of answer the upstream may give
  req,                 \* the request: method, origin header, query
  pc,                  \* where the handler is
  res,                 \* the response object
  ids,                 \* the parsed id list (the filter, in search mode)
  i,                   \* mapWithConcurrency's cursor
  results,             \* mapWithConcurrency's slot array
  workers,             \* mapWithConcurrency's workers
  errorsByResourceId,  \* the per-id upstream errors
  calls,               \* the outbound calls issued for this request, in order
  upstream,            \* the answer the upstream has given to the k-th call
  run,                 \* 1 for the request, 2 for its repetition
  first,               \* the response to the first run
  late                 \* per run: a call settled while one claimed before it was in flight

vars == << variant, apiKey, offers, req, pc, res, ids, i, results, workers,
           errorsByResourceId, calls, upstream, run, first, late >>

\* ------------------------------------------------------------------ inputs

TwoDigits(n) == << DigitChar(n \div 10), DigitChar(n % 10) >>

\* The text YYYY-MM-DD of a date.
Iso(y, m, d) ==
  << DigitChar(y \div 1000), DigitChar((y \div 100) % 10), DigitChar((y \div 10) % 10),
     DigitChar(y % 10), "-" >> \o TwoDigits(m) \o << "-" >> \o TwoDigits(d)

D1 == Iso(2025, 1, 1)

D2 == Iso(2025, 1, 2)

D3 == Iso(2025, 1, 3)

\* Matches YYYY-MM-DD and is no date.
DMonth13 == Iso(2025, 13, 1)

\* Does not match YYYY-MM-DD.
DShort == << "2", "0", "2", "5", "-", "1", "-", "1" >>

StartValues == {D1, D2, DMonth13, DShort, Undefined}

EndValues == {D1, D2, D3, DShort}

QuantityValues == {Undefined, << "2" >>, << "0" >>, << "a", "b", "c" >>}

CsvValues ==
  { Undefined,
    << "," >>,
    << "8" >>,
    << "8", ",", "9" >>,
    << " ", "9", " ", ",", " ", ",", "8" >>,
    << "8", ",", "8" >>,
    << "8", ",", "9", ",", "1", "0" >> }

DebugValues == {Undefined, << "1" >>}

Methods == {"GET", "POST", "OPTIONS"}

\* "1,2,...,n"
RECURSIVE CsvUpTo(_)
CsvUpTo(n) ==
  IF n = 1 THEN << "1" >> ELSE CsvUpTo(n - 1) \o << ",", DigitChar(n) >>

\* The Unix seconds of midnight UTC of a date.
Secs(iso) == toDateUTC(iso).v

Entry(from, to) == [from |-> from, to |-> to]

UsageKinds == {"http500", "notjson", "error", "free", "busy12", "busy23", "iso23"}

\* The answer of each kind to a get_resource_usage call for resource rid.
UsageAnswer(kind, rid) ==
  CASE kind = "http500" -> Answer(500, TRUE, 350, FALSE, EmptyPayload)
    [] kind = "notjson" -> Answer(200, TRUE, 250, FALSE, EmptyPayload)
    [] kind = "error" ->
         Answer(200, TRUE, 60, TRUE,
                Payload(JSNum(4), "Resource not found", NoUsage, NoCandidates, NoResults, NoReasons))
    [] kind = "free" -> Answer(200, TRUE, 40, TRUE, EmptyPayload)
    [] kind = "busy12" ->
         Answer(200, TRUE, 90, TRUE,
                Payload(JSNum(0), "", [r \in {rid} |-> << Entry(JSNum(Secs(D1)), JSNum(Secs(D2))) >>],
                        NoCandidates, NoResults, NoReasons))
    [] kind = "busy23" ->
         Answer(200, TRUE, 90, TRUE,
                Payload(JSUndef, "", [r \in {rid} |-> << Entry(JSNum(Secs(D2)), JSNum(Secs(D3))) >>],
                        NoCandidates, NoResults, NoReasons))
    [] kind = "iso23" ->
         Answer(200, TRUE, 90, TRUE,
                Payload(JSUndef, "", NoUsage,
                        << NoArray, ArrayOf(<< Entry(JSStr(D2), JSStr(D3)) >>), NoArray,
                           NoArray, NoArray >>, NoResults, NoReasons))

Query(start, end, quantity, resourceIds, debug) ==
  [start |-> start, end |-> end, quantity |-> quantity, resourceIds |-> resourceIds,
   debug |-> debug]

Request(method, origin, query) == [method |-> method, origin |-> origin, query |-> query]

\* The state in which a handler is entered with request r.
Entered(v, key, off, r) ==
  /\ variant = v
  /\ apiKey = key
  /\ offers = off
  /\ req = r
  /\ pc = "start"
  /\ res = FreshResponse
  /\ ids = <<>>
  /\ i = 0
  /\ results = EmptyArray
  /\ workers = <<>>
  /\ errorsByResourceId = EmptyArray
  /\ calls = <<>>
  /\ upstream = EmptyArray
  /\ run = 1
  /\ first = FreshResponse
  /\ late = << FALSE, FALSE >>

InitUsage ==
  \E key \in BOOLEAN, m \in Methods, st \in StartValues, en \in EndValues,
     csv \in CsvValues, dbg \in DebugValues :
    Entered("usage", key, UsageKinds, Request(m, "", Query(st, en, Undefined, csv, dbg)))

\* The same requests to the usage handler of src/api/planyo-availability.js.
InitAvailability ==
  \E key \in BOOLEAN, m \in Methods, st \in StartValues, en \in EndValues,
     csv \in CsvValues, dbg \in DebugValues :
    Entered("availability", key, UsageKinds, Request(m, "", Query(st, en, Undefined, csv, dbg)))

\* Requests for 1..MaxIds distinct ids against an upstream whose lookups either
\* find nothing booked or fail with an HTTP error.
InitFan ==
  \E n \in 1..MaxIds :
    Entered("usage", TRUE, {"free", "http500"},
            Request("GET", "", Query(D1, D2, Undefined, CsvUpTo(n), Undefined)))

\* ------------------------------------------------- usage handler (part_001)

\* The entry the per-resource callback of src/api/planyo-availability.js
\* returns: an upstream error code leaves the resource available.
availabilityResult(id, planyoData, checkRange, debugMode) ==
  IF hasErrorCode(planyoData)
  THEN [id |-> id, isAvailable |-> TRUE,
        debugInfo |-> [present |-> debugMode, error |-> debugMode, busyCount |-> 0]]
  ELSE LET busyRanges == extractBusyRangesForResource(planyoData, id)
       IN  [id |-> id, isAvailable |-> isAvailableIn(checkRange, busyRanges),
            debugInfo |-> [present |-> debugMode, error |-> FALSE,
                           busyCount |-> IF debugMode THEN Len(busyRanges) ELSE 0]]

\* The cursor is read without being advanced.
claimNextSame(cursor) == cursor

\* i++ of a worker: the cursor after a claim.
claimNext(cursor) == cursor + 1

\* Every settled worker resumes the handler.
handlerResumesAlways(p, threw) == TRUE

\* A rejected worker never resumes the handler.
handlerResumesOnSuccessOnly(p, threw) == p = "fanout" /\ ~threw

\* Whether a worker that settles resumes the handler: Promise.all settles
\* once, so only while the handler still awaits the fan-out.
handlerResumes(p, threw) == p = "fanout"

\* The checks before the fan-out without the one of the range.
usageRejectNoRange(r, key) ==
  LET q == r.query
      no == [reject |-> FALSE, status |-> 0, allow |-> FALSE, message |-> ""]
      reject(status, message) == [no EXCEPT !.reject = TRUE, !.status = status, !.message = message]
  IN  IF r.method # "GET"
      THEN [reject(405, "Method not allowed") EXCEPT !.allow = TRUE]
      ELSE IF ~key THEN reject(500, "Missing env var: PLANYO_API_KEY")
      ELSE IF ~isValidISODate(q.start) \/ ~isValidISODate(q.end)
      THEN reject(400, "Invalid or missing start/end. Use YYYY-MM-DD.")
      ELSE IF Len(parseIds(q.resourceIds)) = 0
      THEN reject(400, "Missing resourceIds. Provide comma-separated resource IDs from Webflow CMS.")
      ELSE no

\* The checks before the fan-out: the response they end the request with, if any.
usageReject(r, key) ==
  LET q == r.query
      no == [reject |-> FALSE, status |-> 0, allow |-> FALSE, message |-> ""]
      reject(status, message) == [no EXCEPT !.reject = TRUE, !.status = status, !.message = message]
  IN  IF r.method # "GET"
      THEN [reject(405, "Method not allowed") EXCEPT !.allow = TRUE]
      ELSE IF ~key THEN reject(500, "Missing env var: PLANYO_API_KEY")
      ELSE IF ~isValidISODate(q.start) \/ ~isValidISODate(q.end)
      THEN reject(400, "Invalid or missing start/end. Use YYYY-MM-DD.")
      ELSE IF ~Less(toDateUTC(q.start), toDateUTC(q.end))
      THEN reject(400, "Invalid range: start must be before end.")
      ELSE IF Len(parseIds(q.resourceIds)) = 0
      THEN reject(400, "Missing resourceIds. Provide comma-separated resource IDs from Webflow CMS.")
      ELSE no

UsageCall(q, resourceId) ==
  [method |-> "get_resource_usage", resource_id |-> resourceId,
   start_date |-> q.start, end_date |-> q.end]

usageOkBody(q, items, array, errors) ==
  [start |-> q.start, end |-> q.end,
   availableResourceIds |-> IdsWhere(array, TRUE),
   unavailableResourceIds |-> IdsWhere(array, FALSE),
   errorsByResourceId |-> errors,
   meta |-> [checked |-> Len(items), concurrency |-> CONCURRENCY,
             debug |-> IF debugModeOf(q.debug) THEN 1 ELSE 0],
   debugResults |-> IF debugModeOf(q.debug) THEN Entries(array) ELSE <<>>]

\* The 200 body of the usage handler of src/api/planyo-availability.js.
availabilityOkBody(q, items, array) ==
  [start |-> q.start, end |-> q.end,
   availableResourceIds |-> IdsWhere(array, TRUE),
   unavailableResourceIds |-> IdsWhere(array, FALSE),
   meta |-> [checked |-> Len(items), concurrency |-> CONCURRENCY,
             debug |-> IF debugModeOf(q.debug) THEN 1 ELSE 0],
   debugResults |-> IF debugModeOf(q.debug) THEN Entries(array) ELSE <<>>]

\* handler, from its entry to its first suspension: the checks, then
\* mapWithConcurrency starting its workers, each of which claims an index and
\* issues its call before the next one starts.
UsageEnter(v) ==
  /\ variant = v
  /\ pc = "start"
  /\ LET early == usageReject(req, apiKey)
         items == parseIds(req.query.resourceIds)
         n == workerCount(CONCURRENCY, Len(items))
     IN  IF early.reject
         THEN /\ res' = json(IF early.allow THEN setHeader(res, "Allow", "GET") ELSE res,
                             early.status, ErrorBody(Msg0(early.message)))
              /\ pc' = "done"
              /\ UNCHANGED << ids, i, results, workers, errorsByResourceId, calls >>
         ELSE /\ ids' = items
              /\ workers' = [w \in 1..n |-> [st |-> "fetch", idx |-> w - 1]]
              /\ i' = n
              /\ calls' = [k \in 1..n |-> UsageCall(req.query, items[k])]
              /\ results' = EmptyArray
              /\ errorsByResourceId' = EmptyArray
              /\ pc' = "fanout"
              /\ UNCHANGED res
  /\ UNCHANGED << variant, apiKey, offers, req, upstream, run, first, late >>

\* handler of src/unnamed/part_001.
UsageHandler == UsageEnter("usage")

\* The usage handler of src/api/planyo-availability.js.
AvailabilityHandler == UsageEnter("availability")

\* The upstream answers the call of worker w.  The per-resource callback runs
\* to its end; the worker stores the entry and claims the next index, or leaves
\* its loop; a callback that throws rejects the worker.  The handler, as long as
\* it awaits the fan-out, resumes when Promise.all settles: with the 200
\* response once every worker has left its loop, in its catch clause on the
\* first worker rejected.
UsageSettles(v, w) ==
  /\ variant = v
  /\ w \in DOMAIN workers
  /\ workers[w].st = "fetch"
  /\ LET idx == workers[w].idx
         id == At(ids, idx)
         q == req.query
     IN  \E kind \in (IF idx \in DOMAIN upstream THEN {upstream[idx]} ELSE offers) :
           LET call == callPlanyoGetResourceUsage(UsageAnswer(kind, id), id)
               checkRange == [start |-> toDateUTC(q.start), end |-> toDateUTC(q.end)]
               entry == IF v = "usage"
                        THEN usageResult(id, call.data, checkRange, debugModeOf(q.debug))
                        ELSE availabilityResult(id, call.data, checkRange, debugModeOf(q.debug))
               stored == storeResult(results, idx, entry)
               errors == IF v = "usage" /\ hasErrorCode(call.data)
                         THEN Put(errorsByResourceId, id, UpstreamError(call.data))
                         ELSE errorsByResourceId
               left == [workers EXCEPT ![w].st = "done"]
           IN  /\ upstream' = Put(upstream, idx, kind)
               /\ IF call.threw
                  THEN /\ workers' = [workers EXCEPT ![w].st = "failed"]
                       /\ UNCHANGED << results, errorsByResourceId, i, calls >>
                       /\ IF handlerResumes(pc, TRUE)
                          THEN /\ res' = json(res, 500, ErrorBody(call.message))
                               /\ pc' = "done"
                          ELSE UNCHANGED << res, pc >>
                  ELSE /\ results' = stored
                       /\ errorsByResourceId' = errors
                       /\ IF i < Len(ids)
                          THEN /\ workers' = [workers EXCEPT ![w].idx = i]
                               /\ i' = claimNext(i)
                               /\ calls' = Append(calls, UsageCall(q, At(ids, i)))
                               /\ UNCHANGED << res, pc >>
                          ELSE /\ workers' = left
                               /\ UNCHANGED << i, calls >>
                               /\ IF /\ handlerResumes(pc, FALSE)
                                     /\ \A u \in DOMAIN left : left[u].st = "done"
                                  THEN /\ res' = json(res, 200,
                                                      IF v = "usage"
                                                      THEN usageOkBody(q, ids, stored, errors)
                                                      ELSE availabilityOkBody(q, ids, stored))
                                       /\ pc' = "done"
                                  ELSE UNCHANGED << res, pc >>
  /\ late' = [late EXCEPT ![run] =
                @ \/ \E u \in DOMAIN workers :
                       workers[u].st = "fetch" /\ workers[u].idx < workers[w].idx]
  /\ UNCHANGED << variant, apiKey, offers, req, ids, run, first >>

\* A get_resource_usage call of the handler of src/unnamed/part_001 settles.
UsageCallSettles(w) == UsageSettles("usage", w)

\* A get_resource_usage call of the usage handler of
\* src/api/planyo-availability.js settles.
AvailabilityCallSettles(w) == UsageSettles("availability", w)

\* No call of the request is in flight and no code of it is left to run.
Quiescent ==
  /\ pc = "done"
  /\ \A w \in DOMAIN workers : workers[w].st # "fetch"

\* The client sends the same request again; the upstream has not changed.
Repeat ==
  /\ Quiescent
  /\ run = 1
  /\ run' = 2
  /\ first' = res
  /\ pc' = "start"
  /\ res' = FreshResponse
  /\ ids' = <<>>
  /\ i' = 0
  /\ results' = EmptyArray
  /\ workers' = <<>>
  /\ errorsByResourceId' = EmptyArray
  /\ calls' = <<>>
  /\ UNCHANGED << variant, apiKey, offers, req, upstream, late >>

NextFan ==
  \/ UsageHandler
  \/ \E w \in DOMAIN workers : UsageCallSettles(w)

SpecFan == InitFan /\ [][NextFan]_vars

\* ---------------------------------------------------------- search helpers

\* String(n) of an integer.
RECURSIVE NatToStr(_)
NatToStr(n) ==
  IF n < 10 THEN << DigitChar(n) >> ELSE Append(NatToStr(n \div 10), DigitChar(n % 10))

NumToStr(n) == IF n < 0 THEN << "-" >> \o NatToStr(0 - n) ELSE NatToStr(n)

\* a || b || c || null over the places a collection may be at.
RECURSIVE FirstTruthy(_)
FirstTruthy(places) ==
  IF places = <<>> THEN NoObject
  ELSE IF Head(places).t # "undefined" THEN Head(places)
  ELSE FirstTruthy(Tail(places))

\* The ids the loop of extractAvailableIdsStrict pushes, in order.
RECURSIVE PushedIds(_)
PushedIds(items) ==
  IF items = <<>> THEN <<>>
  ELSE LET item == Head(items)
           id == IF JSTruthy(item.id) THEN item.id ELSE item.resource_id
       IN  (IF id.t = "string" /\ AllDigits(id.s) THEN << id.s >>
            ELSE IF id.t = "number" THEN << NumToStr(id.n) >>
            ELSE <<>>) \o PushedIds(Tail(items))

\* Array.from(new Set(out)): first occurrences, in order.
RECURSIVE Dedup(_)
Dedup(out) ==
  IF out = <<>> THEN <<>>
  ELSE LET init == Dedup(SubSeq(out, 1, Len(out) - 1))
           last == out[Len(out)]
       IN  IF \E k \in 1..Len(init) : init[k] = last THEN init ELSE Append(init, last)

extractAvailableIdsStrict(planyoData) ==
  LET resultsObj == FirstTruthy(planyoData.results)
  IN  IF planyoData.isNull \/ resultsObj.t # "object" THEN <<>>
      ELSE Dedup(PushedIds(resultsObj.items))

extractReasons(planyoData) == IF planyoData.isNull THEN NoReasons ELSE planyoData.reasons

\* The filter, whatever is available.
unavailableOfAll(idsFilter, availableResourceIds) == idsFilter

\* idsFilter.map(String).filter((id) => !availSet.has(id))
unavailableOf(idsFilter, availableResourceIds) ==
  SelectSeq(idsFilter,
            LAMBDA id : ~\E k \in 1..Len(availableResourceIds) : availableResourceIds[k] = id)

\* Number(quantity || 1)
qtyOf(quantity) == IF Truthy(quantity) THEN ToNumber(quantity) ELSE Num(1)

ALLOWED_ORIGINS ==
  { "https://easyrentsuriname.nl",
    "https://www.easyrentsuriname.nl",
    "https://easyrent-suriname-2025.webflow.io" }

\* The Origin header; "" when the request has none.
Origins ==
  {"", "https://easyrentsuriname.nl", "https://www.easyrentsuriname.nl", "https://evil.example"}

\* Every request that names an origin passes the origin check.
isAllowedOriginAny(origin) == origin # ""

\* isAllowedOrigin of the handler.
isAllowedOrigin(origin) == IF origin # "" THEN origin \in ALLOWED_ORIGINS ELSE FALSE

\* The CORS headers with the wildcard in place of the request's origin.
applyCorsWildcard(r, origin) ==
  IF origin # "" /\ origin \in ALLOWED_ORIGINS
  THEN setHeader(setHeader(setHeader(setHeader(r,
         "Access-Control-Allow-Origin", "*"),
         "Vary", "Origin"),
         "Access-Control-Allow-Methods", "GET, OPTIONS"),
         "Access-Control-Allow-Headers", "Content-Type")
  ELSE r

applyCors(r, origin) ==
  IF origin # "" /\ origin \in ALLOWED_ORIGINS
  THEN setHeader(setHeader(setHeader(setHeader(r,
         "Access-Control-Allow-Origin", origin),
         "Vary", "Origin"),
         "Access-Control-Allow-Methods", "GET, OPTIONS"),
         "Access-Control-Allow-Headers", "Content-Type")
  ELSE r

\* The outcome of the resource_search call of src/unnamed/part_000.
callPlanyoResourceSearch(o) ==
  IF ~RespOk(o)
  THEN [threw |-> TRUE, data |-> EmptyPayload,
        message |-> Msg("Planyo HTTP", o.status, <<>>, Min(o.textLen, 300))]
  ELSE IF o.isJson
  THEN [threw |-> FALSE, data |-> o.body, message |-> Msg0("")]
  ELSE IF o.hasBody
  THEN [threw |-> TRUE, data |-> EmptyPayload, message |-> Msg0("Body is unusable")]
  ELSE [threw |-> TRUE, data |-> EmptyPayload,
        message |-> Msg("Planyo response not JSON", 0, <<>>, Min(o.textLen, 200))]

\* The outcome of the resource_search call of src/api/planyo-available.js.
callPlanyoResourceSearchOnce(o) ==
  IF ~RespOk(o)
  THEN [threw |-> TRUE, data |-> EmptyPayload,
        message |-> Msg("Planyo HTTP", o.status, <<>>, Min(o.textLen, 300))]
  ELSE IF ~o.isJson \/ o.body.isNull
  THEN [threw |-> TRUE, data |-> EmptyPayload,
        message |-> Msg0("Planyo response not valid JSON.")]
  ELSE [threw |-> FALSE, data |-> o.body, message |-> Msg0("")]

Item(id, resource_id) == [id |-> id, resource_id |-> resource_id]

SearchKinds == {"http500", "notjson", "null", "error", "none", "only8", "mixed", "only9"}

\* The answer of each kind to a resource_search call.
SearchAnswer(kind) ==
  CASE kind = "http500" -> Answer(500, TRUE, 350, FALSE, EmptyPayload)
    [] kind = "notjson" -> Answer(200, TRUE, 250, FALSE, EmptyPayload)
    [] kind = "null" -> Answer(200, TRUE, 4, TRUE, NullPayload)
    [] kind = "error" ->
         Answer(200, TRUE, 60, TRUE,
                Payload(JSNum(4), "No results", NoUsage, NoCandidates,
                        << ObjectOf(<< Item(JSStr(<< "8" >>), JSUndef) >>), NoObject, NoObject >>,
                        [r \in {<< "9" >>} |-> "booked"]))
    [] kind = "none" -> Answer(200, TRUE, 40, TRUE, EmptyPayload)
    [] kind = "only8" ->
         Answer(200, TRUE, 90, TRUE,
                Payload(JSNum(0), "", NoUsage, NoCandidates,
                        << ObjectOf(<< Item(JSStr(<< "8" >>), JSUndef) >>), NoObject, NoObject >>,
                        [r \in {<< "9" >>} |-> "booked"]))
    [] kind = "mixed" ->
         Answer(200, TRUE, 90, TRUE,
                Payload(JSUndef, "", NoUsage, NoCandidates,
                        << NoObject,
                           ObjectOf(<< Item(JSStr(<< "8" >>), JSUndef),
                                       Item(JSUndef, JSNum(18)),
                                       Item(JSStr(<< "8" >>), JSNum(9)),
                                       Item(JSStr(<< "x", "1" >>), JSUndef) >>),
                           ObjectOf(<< Item(JSStr(<< "9" >>), JSUndef) >>) >>,
                        NoReasons))
    [] kind = "only9" ->
         Answer(200, TRUE, 90, TRUE,
                Payload(JSUndef, "", NoUsage, NoCandidates,
                        << NoObject, NoObject, ObjectOf(<< Item(JSNum(9), JSUndef) >>) >>,
                        NoReasons))

\* ------------------------------------------------------- search handlers

\* The checks of a search handler with the API key looked at last.
searchRejectKeyLast(r, key, allow) ==
  LET q == r.query
      qty == qtyOf(q.quantity)
      no == [reject |-> FALSE, status |-> 0, allow |-> "", message |-> ""]
      reject(status, message) == [no EXCEPT !.reject = TRUE, !.status = status, !.message = message]
  IN  IF r.method # "GET"
      THEN [reject(405, "Method not allowed") EXCEPT !.allow = allow]
      ELSE IF ~isValidISODate(q.start) \/ ~isValidISODate(q.end)
      THEN reject(400, "Invalid or missing start/end. Use YYYY-MM-DD.")
      ELSE IF qty.nan \/ qty.v <= 0
      THEN reject(400, "Invalid quantity. Use a positive number.")
      ELSE IF ~key THEN reject(500, "Missing env var: PLANYO_API_KEY")
      ELSE no

\* The checks of a search handler inside its try block: the response they end
\* the request with, if any.  allow is the value of the Allow header of a 405.
searchReject(r, key, allow) ==
  LET q == r.query
      qty == qtyOf(q.quantity)
      no == [reject |-> FALSE, status |-> 0, allow |-> "", message |-> ""]
      reject(status, message) == [no EXCEPT !.reject = TRUE, !.status = status, !.message = message]
  IN  IF r.method # "GET"
      THEN [reject(405, "Method not allowed") EXCEPT !.allow = allow]
      ELSE IF ~key THEN reject(500, "Missing env var: PLANYO_API_KEY")
      ELSE IF ~isValidISODate(q.start) \/ ~isValidISODate(q.end)
      THEN reject(400, "Invalid or missing start/end. Use YYYY-MM-DD.")
      ELSE IF qty.nan \/ qty.v <= 0
      THEN reject(400, "Invalid quantity. Use a positive number.")
      ELSE no

SearchCall(q, idsFilter) ==
  [method |-> "resource_search", start_time |-> q.start, end_time |-> q.end,
   quantity |-> qtyOf(q.quantity), ppp_resfilter |-> idsFilter]

DebugEcho(q) == debugModeOf(q.debug)

\* The 200 response to an upstream answer that carries an error code.
searchErrorBody(q, idsFilter, planyoData) ==
  [start |-> q.start, end |-> q.end, quantity |-> qtyOf(q.quantity),
   availableResourceIds |-> <<>>,
   unavailableResourceIds |-> IF Len(idsFilter) # 0 THEN idsFilter ELSE <<>>,
   reasonsByResourceId |-> extractReasons(planyoData),
   error |-> UpstreamError(planyoData),
   meta |-> [requestedFilterCount |-> Len(idsFilter), returnedCount |-> 0,
             reasonsCount |-> Cardinality(DOMAIN extractReasons(planyoData)),
             debug |-> IF debugModeOf(q.debug) THEN 1 ELSE 0],
   debug |-> DebugEcho(q)]

\* The 200 response to an upstream answer without error code.
searchOkBody(q, idsFilter, planyoData) ==
  LET availableResourceIds == extractAvailableIdsStrict(planyoData)
  IN  [start |-> q.start, end |-> q.end, quantity |-> qtyOf(q.quantity),
       availableResourceIds |-> availableResourceIds,
       unavailableResourceIds |->
         IF Len(idsFilter) # 0 THEN unavailableOf(idsFilter, availableResourceIds) ELSE <<>>,
       reasonsByResourceId |-> extractReasons(planyoData),
       meta |-> [requestedFilterCount |-> Len(idsFilter),
                 returnedCount |-> Len(availableResourceIds),
                 reasonsCount |-> Cardinality(DOMAIN extractReasons(planyoData)),
                 debug |-> IF debugModeOf(q.debug) THEN 1 ELSE 0],
       debug |-> DebugEcho(q)]

\* The handler after its upstream call, with the error code not looked at.
searchRespondIgnoringCode(r, q, idsFilter, call) ==
  IF call.threw THEN json(r, 500, ErrorBody(call.message))
  ELSE json(r, 200, searchOkBody(q, idsFilter, call.data))

\* The handler after its upstream call has settled with outcome call.
searchRespond(r, q, idsFilter, call) ==
  IF call.threw THEN json(r, 500, ErrorBody(call.message))
  ELSE IF ~call.data.isNull /\ hasErrorCode(call.data)
  THEN json(r, 200, searchErrorBody(q, idsFilter, call.data))
  ELSE json(r, 200, searchOkBody(q, idsFilter, call.data))

\* The try block of a search handler up to its upstream call, entered with the
\* response object r.
SearchEnter(r, allow) ==
  LET early == searchReject(req, apiKey, allow)
      idsFilter == parseIds(req.query.resourceIds)
  IN  /\ IF early.reject
         THEN /\ res' = json(IF early.allow # "" THEN setHeader(r, "Allow", early.allow) ELSE r,
                             early.status, ErrorBody(Msg0(early.message)))
              /\ pc' = "done"
              /\ UNCHANGED << ids, calls >>
         ELSE /\ ids' = idsFilter
              /\ calls' = << SearchCall(req.query, idsFilter) >>
              /\ pc' = "searching"
              /\ res' = r
      /\ UNCHANGED << variant, apiKey, offers, req, i, results, workers,
                      errorsByResourceId, upstream, run, first, late >>

\* handler of src/unnamed/part_000, from its entry to its first suspension.
SearchHandler ==
  /\ variant = "search"
  /\ pc = "start"
  /\ SearchEnter(res, "GET")

\* handler of src/api/planyo-available.js, from its entry to its first
\* suspension: the CORS part, then the try block.
AvailableHandler ==
  /\ variant = "available"
  /\ pc = "start"
  /\ LET origin == req.origin
         withCors == IF isAllowedOrigin(origin) THEN applyCors(res, origin) ELSE res
     IN  IF req.method = "OPTIONS"
         THEN /\ res' = [withCors EXCEPT !.statusCode = 204, !.writes = res.writes + 1]
              /\ pc' = "done"
              /\ UNCHANGED << variant, apiKey, offers, req, ids, i, results, workers,
                              errorsByResourceId, calls, upstream, run, first, late >>
         ELSE IF origin # "" /\ ~isAllowedOrigin(origin)
         THEN /\ res' = json(withCors, 403,
                             [error |-> Msg0("CORS: Origin not allowed"), origin |-> origin,
                              allowedOrigins |-> ALLOWED_ORIGINS])
              /\ pc' = "done"
              /\ UNCHANGED << variant, apiKey, offers, req, ids, i, results, workers,
                              errorsByResourceId, calls, upstream, run, first, late >>
         ELSE SearchEnter(withCors, "GET, OPTIONS")

\* The upstream answers the search call; the handler resumes and responds.
SearchSettles(v) ==
  /\ variant = v
  /\ pc = "searching"
  /\ \E kind \in (IF 0 \in DOMAIN upstream THEN {upstream[0]} ELSE offers) :
       /\ upstream' = Put(upstream, 0, kind)
       /\ res' = searchRespond(res, req.query, ids,
                                IF v = "search"
                                THEN callPlanyoResourceSearch(SearchAnswer(kind))
                                ELSE callPlanyoResourceSearchOnce(SearchAnswer(kind)))
  /\ pc' = "done"
  /\ UNCHANGED << variant, apiKey, offers, req, ids, i, results, workers,
                  errorsByResourceId, calls, run, first, late >>

SearchCallSettles == SearchSettles("search")

AvailableCallSettles == SearchSettles("available")

InitSearch ==
  \E key \in BOOLEAN, m \in Methods, st \in StartValues, en \in EndValues,
     qty \in QuantityValues, csv \in CsvValues, dbg \in DebugValues :
    Entered("search", key, SearchKinds, Request(m, "", Query(st, en, qty, csv, dbg)))

InitAvailable ==
  \E key \in BOOLEAN, m \in Methods, o \in Origins, st \in StartValues, en \in EndValues,
     qty \in QuantityValues, csv \in CsvValues, dbg \in DebugValues :
    Entered("available", key, SearchKinds, Request(m, o, Query(st, en, qty, csv, dbg)))

Init == InitUsage \/ InitAvailability \/ InitSearch \/ InitAvailable

Next ==
  \/ UsageHandler
  \/ \E w \in DOMAIN workers : UsageCallSettles(w)
  \/ AvailabilityHandler
  \/ \E w \in DOMAIN workers : AvailabilityCallSettles(w)
  \/ SearchHandler
  \/ SearchCallSettles
  \/ AvailableHandler
  \/ AvailableCallSettles
  \/ Repeat

Spec == Init /\ [][Next]_vars

\* ------------------------------------------------------------ properties

InFlight == {w \in DOMAIN workers : workers[w].st = "fetch"}

\* The ids the request asks for.
Requested == parseIds(req.query.resourceIds)

Range(seq) == {seq[k] : k \in 1..Len(seq)}

Answered200 == pc = "done" /\ res.writes > 0 /\ res.statusCode = 200

\* C1: in the usage-mode fan-out, at most min(CONCURRENCY, number of requested
\* ids) get_resource_usage calls are in flight, in every reachable state.
C1_InFlightAtMostLimit ==
  variant = "usage" => Cardinality(InFlight) <= Min(CONCURRENCY, Len(Requested))

\* More ids than workers: a call has settled, its worker has claimed the last
\* index, and CONCURRENCY calls are in flight again.
C1_Witness ==
  /\ variant = "usage"
  /\ Len(ids) > CONCURRENCY
  /\ DOMAIN results # {}
  /\ i = Len(ids)
  /\ Cardinality(InFlight) = CONCURRENCY

\* What the upstream answered to the call for index k (zero-based).
AnswerAt(k) == UsageAnswer(upstream[k], At(ids, k))

\* Whether the answer to the call for index k leaves that resource available
\* in the requested window.
FreeAt(k) ==
  /\ ~hasErrorCode(AnswerAt(k).body)
  /\ isAvailableIn([start |-> toDateUTC(req.query.start), end |-> toDateUTC(req.query.end)],
                   extractBusyRangesForResource(AnswerAt(k).body, At(ids, k)))

\* The requested ids of the indices from k on whose availability is wanted,
\* in request order.
RECURSIVE RequestOrder(_, _)
RequestOrder(k, wanted) ==
  IF k >= Len(ids) THEN <<>>
  ELSE (IF FreeAt(k) = wanted THEN << At(ids, k) >> ELSE <<>>) \o RequestOrder(k + 1, wanted)

\* C2: on a 200 of the usage handler the k-th result is the one of the k-th
\* requested id, and both id lists are in request order.
C2_ResultsInRequestOrder ==
  (variant = "usage" /\ Answered200) =>
    /\ ids = Requested
    /\ DOMAIN results = 0..(Len(ids) - 1)
    /\ \A k \in DOMAIN results : results[k].id = At(ids, k)
    /\ res.body.availableResourceIds = RequestOrder(0, TRUE)
    /\ res.body.unavailableResourceIds = RequestOrder(0, FALSE)

\* A 200 for three ids, some available and some not, after calls that settled
\* out of request order.
C2_Witness ==
  /\ variant = "usage"
  /\ Answered200
  /\ late[run]
  /\ Len(ids) = 3
  /\ res.body.availableResourceIds # <<>>
  /\ res.body.unavailableResourceIds # <<>>

\* C3 (as claimed): once the fan-out is dispatched, no response is sent while a
\* worker has a call in flight or an index is unclaimed.
C3_NoResponseBeforeFanOutEnds ==
  (variant = "usage" /\ workers # <<>> /\ res.writes > 0) =>
    (InFlight = {} /\ i = Len(ids))

\* C4: one lookup among several distinct ids answers with an error code and
\* the others answer normally: 200, the erroring id unavailable and the only
\* key of errorsByResourceId, every other id classified by its own answer.
ErrorAt == {k \in DOMAIN upstream : hasErrorCode(AnswerAt(k).body)}

C4_ErrorIsolated ==
  (/\ variant = "usage"
   /\ pc = "done"
   /\ Len(ids) >= 2
   /\ Cardinality(Range(ids)) = Len(ids)
   /\ DOMAIN upstream = 0..(Len(ids) - 1)
   /\ \A k \in DOMAIN upstream : upstream[k] \notin {"http500", "notjson"}
   /\ Cardinality(ErrorAt) = 1) =>
    /\ res.statusCode = 200
    /\ \A k \in ErrorAt :
         /\ At(ids, k) \in Range(res.body.unavailableResourceIds)
         /\ At(ids, k) \notin Range(res.body.availableResourceIds)
         /\ DOMAIN res.body.errorsByResourceId = {At(ids, k)}
         /\ res.body.errorsByResourceId[At(ids, k)] = UpstreamError(AnswerAt(k).body)
    /\ \A k \in DOMAIN upstream \ ErrorAt :
         /\ At(ids, k) \in Range(res.body.availableResourceIds) <=> FreeAt(k)
         /\ At(ids, k) \in Range(res.body.unavailableResourceIds) <=> ~FreeAt(k)

\* Three distinct ids: one errors, one of the others is available and one not.
C4_Witness ==
  /\ variant = "usage"
  /\ Answered200
  /\ Len(ids) = 3
  /\ Cardinality(ErrorAt) = 1
  /\ Len(res.body.availableResourceIds) = 1
  /\ Len(res.body.unavailableResourceIds) = 2

\* C5 (as claimed): a failed lookup does not stop its worker, so once no
\* worker is running every requested index has been dispatched.
C5_EveryIdDispatched ==
  (variant = "usage" /\ workers # <<>> /\ InFlight = {}) =>
    (i = Len(ids) /\ Len(calls) = Len(ids))

\* C6: the repetition of a usage request against the unchanged upstream gives
\* the same two id lists, in the same order, as the first run.
C6_RepeatSameLists ==
  (variant = "usage" /\ run = 2 /\ Answered200 /\ first.statusCode = 200) =>
    /\ res.body.availableResourceIds = first.body.availableResourceIds
    /\ res.body.unavailableResourceIds = first.body.unavailableResourceIds

\* Both runs answered 200 on three ids, with calls settling in request order
\* in one run and out of it in the other.
C6_Witness ==
  /\ variant = "usage"
  /\ run = 2
  /\ Answered200
  /\ first.statusCode = 200
  /\ late[1] # late[2]
  /\ Len(ids) = 3
  /\ res.body.availableResourceIds # <<>>
  /\ res.body.unavailableResourceIds # <<>>

SearchVariants == {"search", "available"}

\* The request passes the origin check: no Origin header, or an allowed one.
OriginPasses == req.origin = "" \/ req.origin \in ALLOWED_ORIGINS

BadDates == ~isValidISODate(req.query.start) \/ ~isValidISODate(req.query.end)

BadRange == ~BadDates /\ ~Less(toDateUTC(req.query.start), toDateUTC(req.query.end))

BadQuantity == qtyOf(req.query.quantity).nan \/ qtyOf(req.query.quantity).v <= 0

\* The request is one that validation is to reject.
ValidationRejects ==
  IF variant = "usage" THEN BadDates \/ BadRange \/ Requested = <<>>
  ELSE BadDates \/ BadQuantity

\* C7 (as claimed): every GET request with the API key present that validation
\* rejects is answered 400, and no outbound call is made for it.
C7_InvalidGets400 ==
  (req.method = "GET" /\ apiKey /\ ValidationRejects) =>
    (calls = <<>> /\ (pc = "done" => res.statusCode = 400))

\* C7 (amended): the same for the requests that pass the origin check.
C7_InvalidGets400PastOrigin ==
  (req.method = "GET" /\ apiKey /\ OriginPasses /\ ValidationRejects) =>
    (calls = <<>> /\ (pc = "done" => res.statusCode = 400))

\* A usage request whose start does not lie before its end has been answered.
C7_Witness ==
  /\ variant = "usage"
  /\ req.method = "GET"
  /\ apiKey
  /\ BadRange
  /\ Requested # <<>>
  /\ pc = "done"
  /\ res.statusCode = 400

\* C8: a GET request that passes the origin check while the API key is absent
\* is answered 500 'Missing env var', whatever its query, without outbound call.
C8_MissingKeyIs500 ==
  (req.method = "GET" /\ ~apiKey /\ OriginPasses) =>
    /\ calls = <<>>
    /\ pc = "done" =>
         /\ res.statusCode = 500
         /\ res.body = ErrorBody(Msg0("Missing env var: PLANYO_API_KEY"))

\* An invalid query sent from an allowed origin has been answered without key.
C8_Witness ==
  /\ variant = "available"
  /\ req.method = "GET"
  /\ ~apiKey
  /\ req.origin \in ALLOWED_ORIGINS
  /\ ValidationRejects
  /\ pc = "done"
  /\ res.statusCode = 500

\* The answer to the search call of the request, once it has settled.
SearchSettled == variant \in SearchVariants /\ pc = "done" /\ calls # <<>>

SearchBody == SearchAnswer(upstream[0]).body

SearchCarriesCode ==
  /\ RespOk(SearchAnswer(upstream[0]))
  /\ SearchAnswer(upstream[0]).isJson
  /\ ~SearchBody.isNull
  /\ hasErrorCode(SearchBody)

\* C9: in search mode an upstream body with a non-zero response code is
\* answered 200 with no available id, the whole filter unavailable in filter
\* order, and the upstream code and message echoed.
C9_SearchErrorCode ==
  (SearchSettled /\ SearchCarriesCode) =>
    /\ res.statusCode = 200
    /\ res.body.availableResourceIds = <<>>
    /\ res.body.unavailableResourceIds = Requested
    /\ res.body.error = [response_code |-> SearchBody.response_code,
                         response_message |-> SearchBody.response_message]

\* The upstream named a result next to its error code, for a filter of two ids.
C9_Witness ==
  /\ SearchSettled
  /\ SearchCarriesCode
  /\ extractAvailableIdsStrict(SearchBody) # <<>>
  /\ Len(Requested) = 2
  /\ res.statusCode = 200

\* C10: in search mode, on a body without error code, unavailableResourceIds
\* is the filter without the available ids, in filter order; the two lists are
\* disjoint and split the filter; an empty filter leaves it empty.
C10_UnavailableIsFilterMinusAvailable ==
  (SearchSettled /\ res.statusCode = 200 /\ ~SearchCarriesCode) =>
    LET av == res.body.availableResourceIds
        un == res.body.unavailableResourceIds
    IN  /\ av = extractAvailableIdsStrict(SearchBody)
        /\ un = SelectSeq(Requested, LAMBDA id : id \notin Range(av))
        /\ Range(av) \cap Range(un) = {}
        /\ \A id \in Range(Requested) : (id \in Range(av)) # (id \in Range(un))
        /\ Requested = <<>> => un = <<>>

\* The filter 8,9 against the available set {8}.
C10_Witness ==
  /\ SearchSettled
  /\ res.statusCode = 200
  /\ ~SearchCarriesCode
  /\ Requested = << << "8" >>, << "9" >> >>
  /\ res.body.availableResourceIds = << << "8" >> >>
  /\ res.body.unavailableResourceIds = << << "9" >> >>

\* The window the request asks about.
Window == [start |-> toDateUTC(req.query.start), end |-> toDateUTC(req.query.end)]

\* The busy intervals read from the answer to the call for index k.
BusyAt(k) == extractBusyRangesForResource(AnswerAt(k).body, At(ids, k))

\* start < b1 and b0 < end on the instants of the window and of a busy interval.
Meets(b) ==
  /\ ~Window.start.nan /\ ~b.end.nan /\ Window.start.v < b.end.v
  /\ ~b.start.nan /\ ~Window.end.nan /\ b.start.v < Window.end.v

\* C11: in usage mode, a resource whose lookup returned a body without error
\* code is reported available exactly when none of its busy intervals [b0, b1)
\* has start < b1 and b0 < end for the window [start, end); the test gives the
\* same result with the two intervals exchanged, and a busy interval that only
\* touches the window (b1 = start or b0 = end) leaves the resource available.
C11_AvailableIffNoOverlap ==
  (variant = "usage" /\ Answered200) =>
    \A k \in DOMAIN results :
      ~hasErrorCode(AnswerAt(k).body) =>
        LET busy == BusyAt(k)
            id == At(ids, k)
            free == ~\E j \in 1..Len(busy) : Meets(busy[j])
        IN  /\ results[k].isAvailable = free
            /\ free => id \in Range(res.body.availableResourceIds)
            /\ ~free => id \in Range(res.body.unavailableResourceIds)
            /\ \A j \in 1..Len(busy) :
                 /\ rangesOverlap(Window.start, Window.end, busy[j].start, busy[j].end)
                      = rangesOverlap(busy[j].start, busy[j].end, Window.start, Window.end)
                 /\ (busy[j].end = Window.start \/ busy[j].start = Window.end)
                      => ~rangesOverlap(Window.start, Window.end, busy[j].start, busy[j].end)

\* Two resources against one window: the first is booked until the instant the
\* window starts and is available, the second is booked inside the window and
\* is not.
C11_Witness ==
  /\ variant = "usage"
  /\ Answered200
  /\ Len(ids) = 2
  /\ DOMAIN results = {0, 1}
  /\ upstream[0] = "busy12"
  /\ Len(BusyAt(0)) = 1
  /\ BusyAt(0)[1].end = Window.start
  /\ Len(BusyAt(1)) = 1
  /\ Meets(BusyAt(1)[1])
  /\ res.body.availableResourceIds = << At(ids, 0) >>
  /\ res.body.unavailableResourceIds = << At(ids, 1) >>

\* The response carries header name with value.
HasHeader(name, value) == << name, value >> \in res.headers

\* The response was written by the JSON writer.
WrittenAsJson ==
  /\ res.isJson
  /\ HasHeader("Content-Type", "application/json; charset=utf-8")
  /\ HasHeader("Cache-Control", "s-maxage=60, stale-while-revalidate=300")

\* C12 as stated: every response of the allowlist search handler, for every
\* method, origin and outcome, is written by the JSON writer: a JSON body,
\* Content-Type application/json and Cache-Control s-maxage=60,
\* stale-while-revalidate=300.
C12_EveryResponseIsJson ==
  (variant = "available" /\ res.writes > 0) => WrittenAsJson

\* C12: every response of the allowlist search handler to a request whose
\* method is not OPTIONS, for every origin and outcome, is written by the JSON
\* writer: a JSON body, Content-Type application/json and Cache-Control
\* s-maxage=60, stale-while-revalidate=300.
C12_EveryResponsePastPreflightIsJson ==
  (variant = "available" /\ res.writes > 0 /\ req.method # "OPTIONS") => WrittenAsJson

\* A GET from an allowlisted origin whose upstream call failed: the 500 of the
\* catch clause, with the CORS headers next to those of the writer.
C12_Witness ==
  /\ variant = "available"
  /\ req.method = "GET"
  /\ req.origin = "https://www.easyrentsuriname.nl"
  /\ pc = "done"
  /\ 0 \in DOMAIN upstream
  /\ res.statusCode = 500
  /\ WrittenAsJson
  /\ HasHeader("Access-Control-Allow-Origin", req.origin)

\* C13 as stated: the allowlist handler answers every request whose Origin
\* header is present and not in the allowlist with 403 and a body that echoes
\* the origin and the allowlist, whatever its method.
C13_DisallowedOriginGets403 ==
  (variant = "available" /\ res.writes > 0 /\ req.origin # ""
     /\ req.origin \notin ALLOWED_ORIGINS) =>
    /\ res.statusCode = 403
    /\ res.isJson
    /\ res.body = [error |-> Msg0("CORS: Origin not allowed"), origin |-> req.origin,
                   allowedOrigins |-> ALLOWED_ORIGINS]

\* C13: the allowlist handler answers every request whose Origin header is
\* present and not in the allowlist, and whose method is not OPTIONS, with 403
\* and a body that echoes the origin and the allowlist.
C13_DisallowedOriginPastPreflightGets403 ==
  req.method # "OPTIONS" => C13_DisallowedOriginGets403

\* A POST from a foreign origin, answered 403 before the method check.
C13_Witness ==
  /\ variant = "available"
  /\ req.method = "POST"
  /\ req.origin = "https://evil.example"
  /\ pc = "done"
  /\ res.statusCode = 403
  /\ res.body.origin = "https://evil.example"
  /\ res.body.allowedOrigins = ALLOWED_ORIGINS

\* C14: in the usage handler of src/api/planyo-availability.js, a resource
\* whose lookup returned a body with a non-zero response code is marked
\* unavailable: on the 200 response its id is in unavailableResourceIds and not
\* in availableResourceIds, and every requested id has its entry.
C14_ErrorCodedIsUnavailable ==
  (variant = "availability" /\ Answered200) =>
    /\ DOMAIN results = 0..(Len(ids) - 1)
    /\ \A k \in DOMAIN results :
         hasErrorCode(AnswerAt(k).body) =>
           /\ At(ids, k) \in Range(res.body.unavailableResourceIds)
           /\ At(ids, k) \notin Range(res.body.availableResourceIds)

\* Every request of Init, and the requests for up to MaxIds ids.
InitAll == Init \/ InitFan

SpecAll == InitAll /\ [][Next]_vars

\* The indices of the id list claimed so far.
Claimed == 0..(i - 1)

\* C15: no outbound call is repeated.  A search request issues at most one
\* resource_search call.  In the usage fan-out one call is issued per claimed
\* index, the k-th for the k-th id, no two workers hold the same index and no
\* index is fetched again once its entry is stored; when the fan-out resolves
\* with no lookup failed, every index has been claimed and fetched exactly once.
C15_NoCallRepeated ==
  IF variant \in SearchVariants
  THEN Len(calls) <= 1
  ELSE /\ Len(calls) = i
       /\ i <= Len(ids)
       /\ \A k \in 1..Len(calls) : calls[k].resource_id = ids[k]
       /\ \A u, v \in DOMAIN workers : u # v => workers[u].idx # workers[v].idx
       /\ \A v \in DOMAIN workers : workers[v].idx \in Claimed
       /\ DOMAIN results \subseteq Claimed
       /\ \A v \in InFlight : workers[v].idx \notin DOMAIN results
       /\ Answered200 =>
            /\ Len(calls) = Len(ids)
            /\ DOMAIN results = 0..(Len(ids) - 1)
            /\ \A v \in DOMAIN workers : workers[v].st = "done"

\* More ids than workers, completions out of request order, every lookup
\* succeeded: one call per id.
C15_Witness ==
  /\ variant = "usage"
  /\ Answered200
  /\ Len(ids) > CONCURRENCY
  /\ late[run]
  /\ Len(calls) = Len(ids)

UsageVariants == {"usage", "availability"}

\* The workers whose call failed at transport level: an HTTP error status, or
\* a body that is not JSON.
Failed == {w \in DOMAIN workers : workers[w].st = "failed"}

\* The message of the error the call of worker w raised.
FailureOf(w) ==
  callPlanyoGetResourceUsage(AnswerAt(workers[w].idx), At(ids, workers[w].idx)).message

\* The search call of the request failed at transport level.
SearchFailed == ~RespOk(SearchAnswer(upstream[0])) \/ ~SearchAnswer(upstream[0]).isJson

\* The message of the error the search call raised.
SearchFailure ==
  IF variant = "search"
  THEN callPlanyoResourceSearch(SearchAnswer(upstream[0])).message
  ELSE callPlanyoResourceSearchOnce(SearchAnswer(upstream[0])).message

\* The response is the 500 of the catch clause with message as its error.
Is500With(message) ==
  /\ pc = "done"
  /\ res.writes = 1
  /\ res.statusCode = 500
  /\ res.isJson
  /\ res.body = [error |-> message]

\* A call answered with a non-zero response code inside a JSON body, and no
\* call of the request failed at transport level: the response is not a 500.
CodeAloneIsNot500 ==
  /\ (SearchSettled /\ SearchCarriesCode) => res.statusCode = 200
  /\ (variant \in UsageVariants /\ pc = "done" /\ res.writes > 0 /\ workers # <<>>
        /\ Failed = {} /\ InFlight = {}
        /\ \E k \in DOMAIN results : hasErrorCode(AnswerAt(k).body))
       => res.statusCode = 200

\* C16 as stated: whenever a call of a request has failed at transport level,
\* the response is a 500 whose error field is that failure's message, never a
\* 200; a non-zero upstream code inside valid JSON is not answered with 500.
C16_EveryFailureIsTheError ==
  /\ (SearchSettled /\ SearchFailed) => Is500With(SearchFailure)
  /\ variant \in UsageVariants => \A w \in Failed : Is500With(FailureOf(w))
  /\ CodeAloneIsNot500

\* A response written once a failure has settled carries a failure's message.
FailureIs500 ==
  /\ (SearchSettled /\ SearchFailed) => Is500With(SearchFailure)
  /\ (variant \in UsageVariants /\ Failed # {}) => \E w \in Failed : Is500With(FailureOf(w))
  /\ CodeAloneIsNot500

\* The step in which the first call of a request fails writes the 500 with
\* that call's message.
FirstFailureAnswers ==
  \A w \in DOMAIN workers :
    (Failed = {} /\ w \in DOMAIN workers' /\ workers'[w].st = "failed") =>
      /\ res'.statusCode = 500
      /\ res'.isJson
      /\ res'.body = [error |-> callPlanyoGetResourceUsage(
                                   UsageAnswer(upstream'[workers[w].idx], At(ids, workers[w].idx)),
                                   At(ids, workers[w].idx)).message]

\* C16: if a call of a request fails at transport level, the handler answers
\* 500 with a JSON body whose error field is the message of the first such
\* failure to settle, and never 200; a request none of whose calls fails at
\* transport level is not answered 500 because of a non-zero upstream code.
C16_FirstFailureIsTheError == []FailureIs500 /\ [][FirstFailureAnswers]_vars

\* Two lookups failed with an HTTP error, each with its own message.
C16_Witness ==
  /\ variant = "usage"
  /\ Cardinality(Failed) = 2
  /\ \E u, v \in Failed : FailureOf(u) # FailureOf(v)
  /\ \E w \in Failed : Is500With(FailureOf(w))

\* The message the code composes for a body that is not JSON: its fixed text
\* and the first 200 characters of the body.
NotJsonMessage(o) == Msg("Planyo response not JSON", 0, <<>>, Min(o.textLen, 200))

\* The upstream answered o with a successful status and a body that is not JSON.
NotJson(o) == RespOk(o) /\ o.hasBody /\ ~o.isJson

\* C17: when the upstream answers with a successful status and a body that is
\* not valid JSON, the error of the upstream call, surfaced in the 500
\* response, carries an excerpt of that body of at most 200 characters,
\* although the JSON parse attempt has consumed the body before the excerpt is
\* taken.
C17_NotJsonErrorCarriesExcerpt ==
  /\ (SearchSettled /\ NotJson(SearchAnswer(upstream[0]))) =>
       Is500With(NotJsonMessage(SearchAnswer(upstream[0])))
  /\ (variant \in UsageVariants /\ Failed # {}
        /\ \A w \in Failed : NotJson(AnswerAt(workers[w].idx))) =>
       \E w \in Failed : Is500With(NotJsonMessage(AnswerAt(workers[w].idx)))

\* C18: in the handler with the origin allowlist, a response carries
\* Access-Control-Allow-Origin only if the request's Origin header is one of
\* the allowlisted origins, and then with exactly that origin as its value;
\* no call to the upstream is made for a request whose Origin header is present
\* and not allowlisted.
C18_AllowOriginOnlyForAllowlisted ==
  variant = "available" =>
    /\ \A h \in res.headers :
         h[1] = "Access-Control-Allow-Origin" =>
           /\ req.origin \in ALLOWED_ORIGINS
           /\ h[2] = req.origin
    /\ (req.origin # "" /\ req.origin \notin ALLOWED_ORIGINS) =>
         /\ calls = <<>>
         /\ pc # "searching"

\* A search from the www origin, answered 200 with that origin allowed.
C18_Witness ==
  /\ variant = "available"
  /\ req.origin = "https://www.easyrentsuriname.nl"
  /\ SearchSettled
  /\ res.statusCode = 200
  /\ HasHeader("Access-Control-Allow-Origin", "https://www.easyrentsuriname.nl")

\* At most one response is written, and the handler has ended exactly when
\* one is.
OneResponse == res.writes <= 1 /\ (pc = "done" <=> res.writes = 1)

\* Within a request, a response once written is not touched again.
ResponseStays == (res.writes = 1 /\ run' = run) => res' = res

\* C19: for every request and every interleaving of fan-out completions and
\* failures the handler writes exactly one response: never a second one, one
\* when the handler has ended, and calls that settle after the response has
\* been sent leave it as it is.
C19_ExactlyOneResponse == []OneResponse /\ [][ResponseStays]_vars

\* More ids than workers: a second lookup failed after the 500 of the first,
\* and no call is in flight any more.
C19_Witness ==
  /\ variant \in UsageVariants
  /\ Len(ids) > CONCURRENCY
  /\ Cardinality(Failed) >= 2
  /\ DOMAIN results # {}
  /\ InFlight = {}
  /\ res.writes = 1
  /\ res.statusCode = 500

\* One request from its arrival to the end of its last call.
NextLive ==
  \/ UsageHandler
  \/ \E w \in DOMAIN workers : UsageCallSettles(w)
  \/ AvailabilityHandler
  \/ \E w \in DOMAIN workers : AvailabilityCallSettles(w)
  \/ SearchHandler
  \/ SearchCallSettles
  \/ AvailableHandler
  \/ AvailableCallSettles

\* The runtime runs a handler that has been entered, and every call issued is
\* answered at some time: with a body, an HTTP error or a body that fails to
\* parse.
Fairness ==
  /\ WF_vars(UsageHandler)
  /\ WF_vars(AvailabilityHandler)
  /\ WF_vars(SearchHandler)
  /\ WF_vars(AvailableHandler)
  /\ WF_vars(SearchCallSettles)
  /\ WF_vars(AvailableCallSettles)
  /\ \A w \in 1..CONCURRENCY :
       WF_vars(UsageCallSettles(w)) /\ WF_vars(AvailabilityCallSettles(w))

SpecLive == InitAll /\ [][NextLive]_vars /\ Fairness

\* C20: if every call issued is eventually answered and the runtime runs what
\* is ready, every request to either handler eventually has its response, for
\* any number of ids and any mix of lookups that succeed and fail.
C20_EveryRequestAnswered == (pc = "start") ~> (res.writes = 1)

\* More ids than workers: the response is out after the first failed lookup,
\* with entries stored and calls still in flight.
C20_Witness ==
  /\ variant = "usage"
  /\ Len(ids) > CONCURRENCY
  /\ Cardinality(Failed) = 1
  /\ DOMAIN results # {}
  /\ InFlight # {}
  /\ pc = "done"
  /\ res.writes = 1

\* The ids that are keys of errorsByResourceId on the response.
ErrorKeys == DOMAIN res.body.errorsByResourceId

\* C21: in the usage-mode handler, on every 200 response, whether or not the
\* id list repeats an id and whatever the upstream answers to each call, every
\* id that is a key of errorsByResourceId is in unavailableResourceIds and not
\* in availableResourceIds, and the lengths of the two lists sum to the number
\* of requested ids.
C21_ErrorKeysAreUnavailable ==
  (variant = "usage" /\ Answered200) =>
    /\ \A id \in ErrorKeys :
         /\ id \in Range(res.body.unavailableResourceIds)
         /\ id \notin Range(res.body.availableResourceIds)
    /\ Len(res.body.availableResourceIds) + Len(res.body.unavailableResourceIds)
         = Len(Requested)

====
